---- MODULE Spec2Model ----
(***************************************************************************)
(* Model of the freee export scripts.                                      *)
(*                                                                         *)
(*   get_workloads.py / get_projects.py : the offset paginators            *)
(*   lambda_function.py                 : token globals, save_tokens,      *)
(*                                        refresh_access_token,            *)
(*                                        call_freee_api and the main run  *)
(*   get_tokens.py                      : the Secrets Manager refresh      *)
(*                                                                         *)
(* SpecPaginator runs one invocation of a paginator against an API that    *)
(* may answer anything; SpecGuardian runs either token program.            *)
(***************************************************************************)
EXTENDS Integers, Sequences, FiniteSets, TLC

\* ------------------------------------------------------------------ bounds
MaxLimit == 2       \* page sizes 1 .. MaxLimit are requested
MaxTotal == 3       \* the API holds, and reports, at most MaxTotal records

\* Python's None, for tokens and arguments (tokens are the naturals >= 1).
None == 0

\* total_count before the first page is read.
TOTAL_COUNT_UNSET == -1

VARIABLES
    \* --- paginator (get_all_freee_workloads / get_all_freee_projects)
    pg_pc,          \* "idle", "loop" (at the top of while True), "returned"
    resource,       \* "workloads" or "projects"
    pg_args,        \* [access_token, company_id, year_month, limit]
    all_records,    \* all_workloads / all_projects
    offset,
    total_count,
    first_request,
    pg_result,      \* [kind |-> "none" | "None" | "list", items |-> <<...>>]
    \* --- the API the paginator talks to, and what has been observed
    srvTotal,       \* number of records 0 .. srvTotal-1 the API really holds
    requests,       \* page requests issued by this invocation
    wellBehaved,    \* every response so far was the right slice and total
    failedAt,       \* 0, or the request number that failed
    lastResp        \* kind of the last response

pgVars == <<pg_pc, resource, pg_args, all_records, offset, total_count,
            first_request, pg_result, srvTotal, requests, wellBehaved,
            failedAt, lastResp>>

VARIABLES
    \* --- the world both token programs live in
    program,        \* "lambda_function" or "get_tokens"
    now,            \* time.time()
    issued,         \* number of token pairs the token endpoint has issued
    srv_refresh,    \* the refresh token the token endpoint accepts
    last_grant,     \* when the endpoint issued its last pair, and for how long
    sent_refresh,   \* the last refresh request carried: "none", "current", "exchanged"
    unsaved_rotation, \* an exchange whose new pair never reached the store
    \* --- lambda_function.py
    token_file,     \* tokens.json
    current_access_token,
    current_refresh_token,
    token_expires_at,
    g_pc,           \* position of the script / of call_freee_api
    calls,          \* call_freee_api calls completed by this run
    runs,           \* runs of the script so far
    hdr_token,      \* the token in headers["Authorization"]
    \* --- what the current call_freee_api call has done so far
    sends,          \* times the wrapped request was sent
    pre_refreshes,  \* refresh attempts before the first send
    retry_refreshes,\* refresh attempts after a 401
    resp1,          \* status of the first send
    resp2,          \* status of the re-send
    net_calls,      \* requests sent to the token endpoint or the API
    call_outcome,   \* "none", "ok" or the exception that left the call
    cause,          \* what made the operation fail
    persist_failed, \* new tokens were issued and could not be stored
    refreshed_ok,   \* a refresh completed, store included
    \* --- get_tokens.py
    secret,         \* the Secrets Manager secret
    sm_pc,          \* "idle", "post", "returned"
    sm_result       \* the return value

gVars == <<program, now, issued, srv_refresh, last_grant, sent_refresh,
           unsaved_rotation, token_file,
           current_access_token, current_refresh_token, token_expires_at,
           g_pc, calls, runs, hdr_token, sends, pre_refreshes,
           retry_refreshes, resp1, resp2, net_calls, call_outcome, cause,
           persist_failed, refreshed_ok, secret, sm_pc, sm_result>>

VARIABLES
    \* --- process_workloads_to_csv.py
    ag_pc,            \* "input", "lookup", "done"
    all_workloads,    \* the workload entries handed to the aggregation
    all_projects,     \* the project records handed to create_project_lookup
    project_lookup,   \* the dict create_project_lookup returns
    csv_rows_raw,     \* the flattened rows
    aggregated_data,  \* the groups, in insertion order
    final_csv_data,   \* the aggregated rows
    ag_error          \* "none", or the exception that ended the aggregation

agVars == <<ag_pc, all_workloads, all_projects, project_lookup,
            csv_rows_raw, aggregated_data, final_csv_data, ag_error>>

vars == <<pgVars, gVars, agVars>>

\* The aggregation at rest while another program runs.
AgIdle ==
    /\ ag_pc = "input"
    /\ all_workloads = <<>>
    /\ all_projects = <<>>
    /\ project_lookup = <<>>
    /\ csv_rows_raw = <<>>
    /\ aggregated_data = <<>>
    /\ final_csv_data = <<>>
    /\ ag_error = "none"

\* ------------------------------------------------------------ pure helpers
Min(a, b) == IF a < b THEN a ELSE b

CeilDiv(a, b) == (a + b - 1) \div b

\* The records s, s+1, ..., s+n-1 as a page.
Page(s, n) == [i \in 1..n |-> s + i - 1]

\* What a well-behaved API serves for (offset o, limit l) out of t records.
SliceLen(o, l, t) == IF o >= t THEN 0 ELSE Min(o + l, t) - o

\* data.get("meta", {}).get("total_count", 0)
MetaTotalCount(meta) == IF meta.has_total THEN meta.total ELSE 0

Metas == [has_total : {TRUE}, total : 0..MaxTotal]
            \cup {[has_total |-> FALSE, total |-> 0]}

FailKinds == {"http_401", "http_500", "network_error", "bad_json"}

NoResult == [kind |-> "none", items |-> <<>>]
ReturnNone == [kind |-> "None", items |-> <<>>]
ReturnList(s) == [kind |-> "list", items |-> s]

\* if len(part) < limit or offset >= total_count: break
ShouldBreak_Mutant(len, limit, off, total) == len <= limit \/ off >= total
ShouldBreak(len, limit, off, total) == len < limit \/ off >= total

\* offset += len(part)
NextOffset_Mutant(off, len, limit) == IF len >= limit THEN off ELSE off + len
NextOffset_ByLimit(off, len, limit) == off + limit
NextOffset(off, len, limit) == off + len

\* if first_request: total_count = ...; if total_count == 0: return []
IsEmptyFirstPage_Mutant(first, total) == first /\ total < 0
IsEmptyFirstPage(first, total) == first /\ total = 0

\* The argument checks at the top of the paginators.
ArgsRejected_Mutant(res, a) ==
    \/ a.access_token = None
    \/ a.company_id = None
ArgsRejected(res, a) ==
    \/ a.access_token = None
    \/ a.company_id = None
    \/ (res = "workloads" /\ a.year_month = None)

\* --------------------------------------------------- token program values
\* save_tokens: expires_at = time.time() + expires_in - 300
MARGIN == 300
\* token_info.get('expires_in', 3600)
DEFAULT_EXPIRES_IN == 3600

\* The clock starts late enough for now - MARGIN to be a positive time.
StartTime == 2 * MARGIN

\* tokens.json: missing, readable, or left unreadable by a failed write.
MissingFile == [state |-> "missing", access_token |-> None,
                refresh_token |-> None, has_expires_at |-> FALSE,
                expires_at |-> 0]
CorruptFile == [state |-> "corrupt", access_token |-> None,
                refresh_token |-> None, has_expires_at |-> FALSE,
                expires_at |-> 0]
FileWith(a, r, h, e) == [state |-> "ok", access_token |-> a,
                         refresh_token |-> r, has_expires_at |-> h,
                         expires_at |-> e]

\* The secret: readable JSON with the two token fields, or unreadable.
SecretWith(a, r) == [state |-> "ok", access_token |-> a, refresh_token |-> r]

SM_NoResult == [kind |-> "none", access_token |-> None, refresh_token |-> None]

\* ------------------------------------------------------- paginator actions
PgInit ==
    /\ pg_pc = "idle"
    /\ resource = "workloads"
    /\ pg_args = [access_token |-> None, company_id |-> None,
                  year_month |-> None, limit |-> 1]
    /\ all_records = <<>>
    /\ offset = 0
    /\ total_count = TOTAL_COUNT_UNSET
    /\ first_request = TRUE
    /\ pg_result = NoResult
    /\ srvTotal = 0
    /\ requests = 0
    /\ wellBehaved = TRUE
    /\ failedAt = 0
    /\ lastResp = "none"

\* What the token endpoint granted last: the time of the response and the
\* expires_in it carried.
NoGrant == [at |-> 0, has_expires_in |-> FALSE, expires_in |-> 0]
Grant(t, body) ==
    [at |-> t, has_expires_in |-> body.has_expires_in,
     expires_in |-> body.expires_in]

\* What a refresh request carrying refresh token r is to an endpoint whose
\* current refresh token is cur.
SentKind(r, cur) == IF r = cur THEN "current" ELSE "exchanged"

\* The token programs at rest while a paginator runs.
GuardianIdle ==
    /\ program = "lambda_function"
    /\ now = StartTime
    /\ issued = 1
    /\ srv_refresh = 1
    /\ last_grant = NoGrant
    /\ sent_refresh = "none"
    /\ unsaved_rotation = FALSE
    /\ token_file = FileWith(1, 1, FALSE, 0)
    /\ current_access_token = None
    /\ current_refresh_token = None
    /\ token_expires_at = 0
    /\ g_pc = "start"
    /\ calls = 0
    /\ runs = 1
    /\ hdr_token = None
    /\ sends = 0
    /\ pre_refreshes = 0
    /\ retry_refreshes = 0
    /\ resp1 = "none"
    /\ resp2 = "none"
    /\ net_calls = 0
    /\ call_outcome = "none"
    /\ cause = "none"
    /\ persist_failed = FALSE
    /\ refreshed_ok = FALSE
    /\ secret = SecretWith(1, 1)
    /\ sm_pc = "idle"
    /\ sm_result = SM_NoResult

\* The call: argument checks, then the loop variables are set up.
Invoke(res, tok, cid, ym, lim, t) ==
    /\ pg_pc = "idle"
    /\ resource' = res
    /\ pg_args' = [access_token |-> tok, company_id |-> cid,
                   year_month |-> ym, limit |-> lim]
    /\ srvTotal' = t
    /\ all_records' = <<>>
    /\ offset' = 0
    /\ total_count' = TOTAL_COUNT_UNSET
    /\ first_request' = TRUE
    /\ IF ArgsRejected(res, pg_args')
          THEN pg_pc' = "returned" /\ pg_result' = ReturnNone
          ELSE pg_pc' = "loop" /\ pg_result' = NoResult
    /\ UNCHANGED <<requests, wellBehaved, failedAt, lastResp>>
    /\ UNCHANGED <<gVars, agVars>>

\* The return value of a failing iteration (both except clauses).
FailResult_Mutant(acc) == ReturnList(acc)
FailResult(acc) == ReturnNone

\* One iteration of while True whose request succeeds with a page holding
\* the records s .. s+n-1 and the metadata meta.
PageOk(s, n, meta) ==
    /\ pg_pc = "loop"
    /\ requests' = requests + 1
    /\ lastResp' = "ok"
    /\ wellBehaved' = (wellBehaved /\ meta.has_total /\ meta.total = srvTotal
                        /\ n = SliceLen(offset, pg_args.limit, srvTotal)
                        /\ (n > 0 => s = offset))
    /\ IF IsEmptyFirstPage(first_request, MetaTotalCount(meta))
          THEN /\ total_count' = 0
               /\ pg_pc' = "returned"
               /\ pg_result' = ReturnList(<<>>)
               /\ UNCHANGED <<all_records, offset, first_request>>
          ELSE /\ total_count' = IF first_request THEN MetaTotalCount(meta)
                                                  ELSE total_count
               /\ first_request' = FALSE
               /\ all_records' = all_records \o Page(s, n)
               /\ offset' = NextOffset(offset, n, pg_args.limit)
               /\ IF ShouldBreak(n, pg_args.limit, offset', total_count')
                     THEN pg_pc' = "returned"
                          /\ pg_result' = ReturnList(all_records')
                     ELSE pg_pc' = "loop" /\ UNCHANGED pg_result
    /\ UNCHANGED <<resource, pg_args, srvTotal, failedAt>>
    /\ UNCHANGED <<gVars, agVars>>

\* A paginator that went through call_freee_api would refresh on a 401 and
\* ask for the page again.
PageFail_Mutant(kind) ==
    /\ pg_pc = "loop"
    /\ requests' = requests + 1
    /\ lastResp' = kind
    /\ wellBehaved' = FALSE
    /\ IF kind = "http_401"
          THEN /\ pg_pc' = "loop"
               /\ issued' = issued + 1
               /\ srv_refresh' = issued + 1
               /\ UNCHANGED <<failedAt, pg_result>>
          ELSE /\ pg_pc' = "returned"
               /\ failedAt' = requests + 1
               /\ pg_result' = ReturnNone
               /\ UNCHANGED <<issued, srv_refresh>>
    /\ UNCHANGED <<resource, pg_args, all_records, offset, total_count,
                   first_request, srvTotal>>
    /\ UNCHANGED <<program, now, last_grant, sent_refresh, unsaved_rotation,
                   token_file, current_access_token,
                   current_refresh_token, token_expires_at, g_pc, calls,
                   runs, hdr_token, sends, pre_refreshes, retry_refreshes,
                   resp1, resp2, net_calls, call_outcome, cause,
                   persist_failed, refreshed_ok, secret, sm_pc, sm_result>>
    /\ UNCHANGED agVars

\* One iteration whose request fails: requests.get raises, raise_for_status
\* raises on an error status, or the body is not the expected JSON.
PageFail(kind) ==
    /\ pg_pc = "loop"
    /\ requests' = requests + 1
    /\ lastResp' = kind
    /\ failedAt' = requests + 1
    /\ wellBehaved' = FALSE
    /\ pg_pc' = "returned"
    /\ pg_result' = FailResult(all_records)
    /\ UNCHANGED <<resource, pg_args, all_records, offset, total_count,
                   first_request, srvTotal>>
    /\ UNCHANGED <<gVars, agVars>>

PgNext ==
    \/ \E res \in {"workloads", "projects"}, tok \in {None, 1},
          cid \in {None, 1}, ym \in {None, 1},
          lim \in 1..MaxLimit, t \in 0..MaxTotal :
            Invoke(res, tok, cid, ym, lim, t)
    \/ \E s \in 0..MaxTotal, n \in 0..(MaxLimit + 1), meta \in Metas :
            PageOk(s, n, meta)
    \/ \E kind \in FailKinds : PageFail(kind)

\* One paginator call, the token programs at rest.
PaginatorInit == PgInit /\ GuardianIdle /\ AgIdle

SpecPaginator == PaginatorInit /\ [][PgNext]_vars

\* ------------------------------------------------- token program helpers
MaxIssued == 3      \* the token endpoint issues at most MaxIssued pairs
MaxTicks == 2       \* the clock advances at most MaxTicks times MARGIN
MaxRuns == 2        \* runs of the lambda_function script

\* The main block calls call_freee_api at most four times: get_pm_projects,
\* get_pm_project_details, get_deals, get_account_items.
MAX_CALLS == 4

\* expires_in of a refresh response: absent, or present with a value.
ExpiresIns == {<<FALSE, 0>>, <<TRUE, 0>>, <<TRUE, MARGIN>>, <<TRUE, 2 * MARGIN>>}

\* response.json() of the token endpoint: {} or a dict holding some of the
\* fields, n being the pair the endpoint has just issued.
EmptyBody == [access_token |-> None, refresh_token |-> None,
              has_expires_in |-> FALSE, expires_in |-> 0, empty |-> TRUE]
Bodies(n) ==
    {[access_token |-> a, refresh_token |-> r, has_expires_in |-> x[1],
      expires_in |-> x[2], empty |-> FALSE] :
        a \in {None, n}, r \in {None, n}, x \in ExpiresIns}
    \cup {EmptyBody}

\* if not new_tokens_info / if new_tokens_info
Truthy(body) == ~body.empty

\* token_info.get('expires_in', 3600)
ExpiresIn(body) ==
    IF body.has_expires_in THEN body.expires_in ELSE DEFAULT_EXPIRES_IN

\* token_expires_at = time.time() + expires_in - 300
ExpiresAt_Mutant(t, body) == t + ExpiresIn(body)
ExpiresAt(t, body) == t + ExpiresIn(body) - MARGIN

\* The dict save_tokens dumps into tokens.json.
SavedData_Mutant(a, r, e) == FileWith(a, None, TRUE, e)
SavedData_InitialRefresh(a, r, e) == FileWith(a, 1, TRUE, e)
SavedData(a, r, e) == FileWith(a, r, TRUE, e)

\* if current_access_token is None or
\*    (token_expires_at > 0 and time.time() >= token_expires_at)
NeedsRefresh_Mutant(a, e, t) == a = None
NeedsRefresh(a, e, t) == a = None \/ (e > 0 /\ t >= e)

\* What follows the re-send: return response.json() or raise_for_status().
AfterResend_Mutant(status) ==
    IF status = "200" THEN "return"
    ELSE IF status = "401" THEN "retry" ELSE "raise"
AfterResend(status) == IF status = "200" THEN "return" ELSE "raise"

\* How a failed write of tokens.json leaves save_tokens: the OSError is not
\* caught anywhere ("raise"), as opposed to being swallowed ("pass").
WriteFailure_Mutant == "pass"
WriteFailure == "raise"

Statuses == {"200", "401", "500", "network_error"}
WriteOutcomes == {"ok", "open_failed", "dump_failed"}

\* The exception a failed send leaves call_freee_api with.
SendException(status) ==
    IF status = "network_error" THEN "ConnectionError" ELSE "HTTPError"

InitFiles ==
    {MissingFile} \cup
    {FileWith(a, r, x[1], x[2]) :
        a \in {None, 1}, r \in {None, 1},
        x \in {<<FALSE, 0>>, <<TRUE, StartTime>>,
               <<TRUE, StartTime + 2 * MARGIN>>}}

UnreadableSecret == [state |-> "unreadable", access_token |-> None,
                     refresh_token |-> None]
InitSecrets ==
    {UnreadableSecret} \cup {SecretWith(a, r) : a \in {None, 1}, r \in {None, 1}}

SM_Pair(a, r) == [kind |-> "pair", access_token |-> a, refresh_token |-> r]
SM_NoneNone == [kind |-> "(None, None)", access_token |-> None,
                refresh_token |-> None]
SM_None == [kind |-> "None", access_token |-> None, refresh_token |-> None]

\* The return value when put_secret_value raises (except Exception).
PutFailedResult_Mutant(a, r) == SM_Pair(a, r)
PutFailedResult(a, r) == SM_None

callHistory == <<sends, pre_refreshes, retry_refreshes, resp1, resp2,
                 net_calls, call_outcome, cause>>
tokenGlobals == <<current_access_token, current_refresh_token,
                  token_expires_at>>
tokenServer == <<issued, srv_refresh, last_grant, sent_refresh,
                 unsaved_rotation>>
smVars == <<secret, sm_pc, sm_result>>

\* The token endpoint's side of a refresh request, carrying refresh token r,
\* that ends without an answer the program can read: when the request got
\* through, the endpoint has exchanged the token all the same.
LostExchange(exchanged, r) ==
    /\ sent_refresh' = SentKind(r, srv_refresh)
    /\ IF exchanged /\ r = srv_refresh /\ issued < MaxIssued
          THEN /\ issued' = issued + 1
               /\ srv_refresh' = issued + 1
               /\ unsaved_rotation' = TRUE
          ELSE UNCHANGED <<issued, srv_refresh, unsaved_rotation>>
    /\ UNCHANGED last_grant

\* ------------------------------------------------ lambda_function actions
\* load_tokens(), the first statement of the main block.
LoadTokens ==
    /\ program = "lambda_function"
    /\ g_pc = "start"
    /\ IF token_file.state = "corrupt"
          THEN /\ g_pc' = "crashed"
               /\ call_outcome' = "JSONDecodeError"
               /\ cause' = "token_file_unreadable"
               /\ UNCHANGED tokenGlobals
          ELSE /\ g_pc' = "main_check"
               /\ UNCHANGED <<call_outcome, cause>>
               /\ IF token_file.state = "missing"
                     THEN UNCHANGED tokenGlobals
                     ELSE /\ current_access_token' = token_file.access_token
                          /\ current_refresh_token' = token_file.refresh_token
                          /\ token_expires_at' =
                                IF token_file.has_expires_at
                                   THEN token_file.expires_at ELSE 0
    /\ UNCHANGED <<program, now, tokenServer, token_file, calls, runs,
                   hdr_token, sends, pre_refreshes, retry_refreshes, resp1,
                   resp2, net_calls, persist_failed, refreshed_ok, smVars>>
    /\ UNCHANGED <<pgVars, agVars>>

\* if current_access_token is None or current_refresh_token is None: exit()
MainCheck ==
    /\ program = "lambda_function"
    /\ g_pc = "main_check"
    /\ g_pc' = IF current_access_token = None \/ current_refresh_token = None
                  THEN "exit" ELSE "main_call"
    /\ UNCHANGED <<program, now, tokenServer, token_file, tokenGlobals,
                   calls, runs, hdr_token, callHistory, persist_failed,
                   refreshed_ok, smVars>>
    /\ UNCHANGED <<pgVars, agVars>>

\* call_freee_api up to the first network call: the expiry check and the
\* request headers.
CallEntry ==
    /\ program = "lambda_function"
    /\ g_pc = "main_call"
    /\ calls < MAX_CALLS
    /\ sends' = 0 /\ pre_refreshes' = 0 /\ retry_refreshes' = 0
    /\ resp1' = "none" /\ resp2' = "none" /\ net_calls' = 0
    /\ IF NeedsRefresh(current_access_token, token_expires_at, now)
          THEN IF current_refresh_token # None
                  THEN /\ g_pc' = "pre_refresh"
                       /\ call_outcome' = "none" /\ cause' = "none"
                       /\ UNCHANGED hdr_token
                  ELSE /\ g_pc' = "ended_error"
                       /\ call_outcome' = "RequestException:no_refresh_token"
                       /\ cause' = "no_refresh_token"
                       /\ UNCHANGED hdr_token
          ELSE /\ g_pc' = "send"
               /\ hdr_token' = current_access_token
               /\ call_outcome' = "none" /\ cause' = "none"
    /\ UNCHANGED <<program, now, tokenServer, token_file, tokenGlobals,
                   calls, runs, persist_failed, refreshed_ok, smVars>>
    /\ UNCHANGED <<pgVars, agVars>>

\* refresh_access_token(current_refresh_token) with a 2xx answer, save_tokens
\* included, and what call_freee_api does with the return value.
RefreshOk(body, write) ==
    /\ program = "lambda_function"
    /\ g_pc \in {"pre_refresh", "retry_refresh"}
    /\ current_refresh_token = srv_refresh
    /\ issued < MaxIssued
    /\ issued' = issued + 1
    /\ srv_refresh' = issued + 1
    /\ last_grant' = Grant(now, body)
    /\ sent_refresh' = SentKind(current_refresh_token, srv_refresh)
    /\ unsaved_rotation' = (unsaved_rotation \/ write # "ok")
    /\ net_calls' = net_calls + 1
    /\ pre_refreshes' = pre_refreshes + (IF g_pc = "pre_refresh" THEN 1 ELSE 0)
    /\ retry_refreshes' =
          retry_refreshes + (IF g_pc = "retry_refresh" THEN 1 ELSE 0)
    \* save_tokens: the globals first, then the file
    /\ current_access_token' = body.access_token
    /\ current_refresh_token' = body.refresh_token
    /\ token_expires_at' = ExpiresAt(now, body)
    /\ token_file' =
          IF write = "ok"
             THEN SavedData(body.access_token, body.refresh_token,
                            ExpiresAt(now, body))
             ELSE IF write = "dump_failed" THEN CorruptFile ELSE token_file
    /\ persist_failed' = (persist_failed \/ write # "ok")
    /\ IF write # "ok" /\ WriteFailure = "raise"
          THEN /\ g_pc' = "crashed"
               /\ call_outcome' = "OSError"
               /\ cause' = "persist_failed"
               /\ UNCHANGED <<hdr_token, refreshed_ok>>
          ELSE IF Truthy(body)
             THEN /\ g_pc' = IF g_pc = "pre_refresh" THEN "send" ELSE "resend"
                  /\ hdr_token' = body.access_token
                  /\ refreshed_ok' = (refreshed_ok \/ write = "ok")
                  /\ UNCHANGED <<call_outcome, cause>>
             ELSE /\ g_pc' = "ended_error"
                  /\ call_outcome' =
                        IF g_pc = "pre_refresh"
                           THEN "RequestException:refresh_failed"
                           ELSE "HTTPError"
                  /\ cause' = "refresh_empty_body"
                  /\ UNCHANGED <<hdr_token, refreshed_ok>>
    /\ UNCHANGED <<program, now, calls, runs, sends, resp1, resp2, smVars>>
    /\ UNCHANGED <<pgVars, agVars>>

\* refresh_access_token when the token endpoint answers with an error status:
\* it returns None and call_freee_api raises.
RefreshHttpError ==
    /\ program = "lambda_function"
    /\ g_pc \in {"pre_refresh", "retry_refresh"}
    /\ net_calls' = net_calls + 1
    /\ pre_refreshes' = pre_refreshes + (IF g_pc = "pre_refresh" THEN 1 ELSE 0)
    /\ retry_refreshes' =
          retry_refreshes + (IF g_pc = "retry_refresh" THEN 1 ELSE 0)
    /\ g_pc' = "ended_error"
    /\ call_outcome' = IF g_pc = "pre_refresh"
                          THEN "RequestException:refresh_failed"
                          ELSE "HTTPError"
    /\ cause' = "refresh_http_error"
    /\ sent_refresh' = SentKind(current_refresh_token, srv_refresh)
    /\ UNCHANGED <<issued, srv_refresh, last_grant, unsaved_rotation>>
    /\ UNCHANGED <<program, now, token_file, tokenGlobals,
                   calls, runs, hdr_token, sends, resp1, resp2,
                   persist_failed, refreshed_ok, smVars>>
    /\ UNCHANGED <<pgVars, agVars>>

\* refresh_access_token when requests.post raises before any response: the
\* except clause reads the unassigned local "response".  exchanged: the
\* request reached the endpoint, which exchanged the token, and the answer
\* was lost.
RefreshNetworkError(exchanged) ==
    /\ program = "lambda_function"
    /\ g_pc \in {"pre_refresh", "retry_refresh"}
    /\ LostExchange(exchanged, current_refresh_token)
    /\ net_calls' = net_calls + 1
    /\ pre_refreshes' = pre_refreshes + (IF g_pc = "pre_refresh" THEN 1 ELSE 0)
    /\ retry_refreshes' =
          retry_refreshes + (IF g_pc = "retry_refresh" THEN 1 ELSE 0)
    /\ g_pc' = "crashed"
    /\ call_outcome' = "UnboundLocalError"
    /\ cause' = "refresh_network_error"
    /\ UNCHANGED <<program, now, token_file, tokenGlobals,
                   calls, runs, hdr_token, sends, resp1, resp2,
                   persist_failed, refreshed_ok, smVars>>
    /\ UNCHANGED <<pgVars, agVars>>

\* The first send of the wrapped request and the except clauses after it.
Send(status) ==
    /\ program = "lambda_function"
    /\ g_pc = "send"
    /\ sends' = sends + 1
    /\ net_calls' = net_calls + 1
    /\ resp1' = status
    /\ IF status = "200"
          THEN /\ calls' = calls + 1
               /\ g_pc' = IF calls + 1 < MAX_CALLS THEN "main_call" ELSE "done"
               /\ call_outcome' = "ok"
               /\ UNCHANGED cause
          ELSE IF status = "401" /\ current_refresh_token # None
             THEN /\ g_pc' = "retry_refresh"
                  /\ UNCHANGED <<calls, call_outcome, cause>>
             ELSE /\ g_pc' = "ended_error"
                  /\ call_outcome' = SendException(status)
                  /\ cause' = IF status = "network_error"
                                 THEN "call_network_error"
                                 ELSE "call_http_error"
                  /\ UNCHANGED calls
    /\ UNCHANGED <<program, now, tokenServer, token_file, tokenGlobals, runs,
                   hdr_token, pre_refreshes, retry_refreshes, resp2,
                   persist_failed, refreshed_ok, smVars>>
    /\ UNCHANGED <<pgVars, agVars>>

\* The re-send after a successful refresh in the 401 branch.
Resend(status) ==
    /\ program = "lambda_function"
    /\ g_pc = "resend"
    /\ sends' = sends + 1
    /\ net_calls' = net_calls + 1
    /\ resp2' = status
    /\ IF AfterResend(status) = "return"
          THEN /\ calls' = calls + 1
               /\ g_pc' = IF calls + 1 < MAX_CALLS THEN "main_call" ELSE "done"
               /\ call_outcome' = "ok"
               /\ UNCHANGED cause
          ELSE IF AfterResend(status) = "retry"
             THEN /\ g_pc' = "retry_refresh"
                  /\ UNCHANGED <<calls, call_outcome, cause>>
             ELSE /\ g_pc' = "ended_error"
                  /\ call_outcome' = SendException(status)
                  /\ cause' = IF status = "network_error"
                                 THEN "retry_network_error"
                                 ELSE "retry_http_error"
                  /\ UNCHANGED calls
    /\ UNCHANGED <<program, now, tokenServer, token_file, tokenGlobals, runs,
                   hdr_token, pre_refreshes, retry_refreshes, resp1,
                   persist_failed, refreshed_ok, smVars>>
    /\ UNCHANGED <<pgVars, agVars>>

\* The main block skips its remaining, conditional calls.
MainFinish ==
    /\ program = "lambda_function"
    /\ g_pc = "main_call"
    /\ calls >= 1
    /\ g_pc' = "done"
    /\ UNCHANGED <<program, now, tokenServer, token_file, tokenGlobals,
                   calls, runs, hdr_token, callHistory, persist_failed,
                   refreshed_ok, smVars>>
    /\ UNCHANGED <<pgVars, agVars>>

\* Time passes between two calls, two runs or two invocations.
Tick ==
    /\ \/ program = "lambda_function" /\ g_pc \in {"start", "main_call"}
       \/ program = "get_tokens" /\ sm_pc = "idle"
    /\ now < StartTime + MaxTicks * MARGIN
    /\ now' = now + MARGIN
    /\ UNCHANGED <<program, tokenServer, token_file, tokenGlobals, g_pc,
                   calls, runs, hdr_token, callHistory, persist_failed,
                   refreshed_ok, smVars>>
    /\ UNCHANGED <<pgVars, agVars>>

\* The script is started again: a new process with fresh module globals.
Restart ==
    /\ program = "lambda_function"
    /\ g_pc \in {"exit", "done", "ended_error", "crashed"}
    /\ runs < MaxRuns
    /\ runs' = runs + 1
    /\ g_pc' = "start"
    /\ current_access_token' = None
    /\ current_refresh_token' = None
    /\ token_expires_at' = 0
    /\ calls' = 0
    /\ hdr_token' = None
    /\ sends' = 0 /\ pre_refreshes' = 0 /\ retry_refreshes' = 0
    /\ resp1' = "none" /\ resp2' = "none" /\ net_calls' = 0
    /\ call_outcome' = "none" /\ cause' = "none"
    /\ persist_failed' = FALSE
    /\ refreshed_ok' = FALSE
    /\ UNCHANGED <<program, now, tokenServer, token_file, smVars>>
    /\ UNCHANGED <<pgVars, agVars>>

\* ----------------------------------------------------- get_tokens actions
\* refresh_freee_tokens_with_secrets_manager up to the token request: the
\* secret is read (readOk: get_secret_value and json.loads succeed) and the
\* refresh token checked.
SM_Invoke(readOk) ==
    /\ program = "get_tokens"
    /\ sm_pc = "idle"
    /\ sends' = 0 /\ pre_refreshes' = 0 /\ retry_refreshes' = 0
    /\ resp1' = "none" /\ resp2' = "none" /\ net_calls' = 0
    /\ call_outcome' = "none"
    /\ persist_failed' = FALSE
    /\ IF ~readOk \/ secret.state # "ok"
          THEN /\ sm_pc' = "returned"
               /\ sm_result' = SM_NoneNone
               /\ cause' = "secret_unreadable"
          ELSE IF secret.refresh_token = None
             THEN /\ sm_pc' = "returned"
                  /\ sm_result' = SM_NoneNone
                  /\ cause' = "no_refresh_token"
             ELSE /\ sm_pc' = "post"
                  /\ sm_result' = SM_NoResult
                  /\ cause' = "none"
    /\ UNCHANGED <<program, now, tokenServer, token_file, tokenGlobals, g_pc,
                   calls, runs, hdr_token, refreshed_ok, secret>>
    /\ UNCHANGED <<pgVars, agVars>>

\* The token request answered 2xx with body; putOk: put_secret_value works.
SM_PostOk(body, putOk) ==
    /\ program = "get_tokens"
    /\ sm_pc = "post"
    /\ secret.refresh_token = srv_refresh
    /\ issued < MaxIssued
    /\ issued' = issued + 1
    /\ srv_refresh' = issued + 1
    /\ last_grant' = Grant(now, body)
    /\ sent_refresh' = SentKind(secret.refresh_token, srv_refresh)
    /\ unsaved_rotation' =
          (unsaved_rotation
             \/ ~(body.access_token # None /\ body.refresh_token # None /\ putOk))
    /\ net_calls' = net_calls + 1
    /\ pre_refreshes' = pre_refreshes + 1
    /\ sm_pc' = "returned"
    /\ IF body.access_token # None /\ body.refresh_token # None
          THEN IF putOk
                  THEN /\ secret' = SecretWith(body.access_token,
                                               body.refresh_token)
                       /\ sm_result' = SM_Pair(body.access_token,
                                               body.refresh_token)
                       /\ refreshed_ok' = TRUE
                       /\ UNCHANGED <<cause, persist_failed>>
                  ELSE /\ sm_result' = PutFailedResult(body.access_token,
                                                       body.refresh_token)
                       /\ cause' = "persist_failed"
                       /\ persist_failed' = TRUE
                       /\ UNCHANGED <<secret, refreshed_ok>>
          ELSE /\ sm_result' = SM_NoneNone
               /\ cause' = "tokens_missing_in_response"
               /\ UNCHANGED <<secret, refreshed_ok, persist_failed>>
    /\ UNCHANGED <<program, now, token_file, tokenGlobals, g_pc, calls, runs,
                   hdr_token, sends, retry_refreshes, resp1, resp2,
                   call_outcome>>
    /\ UNCHANGED <<pgVars, agVars>>

\* The token request failed: an error status (kind = "refresh_http_error")
\* or no response at all (kind = "refresh_network_error").
SM_PostFail(kind, exchanged) ==
    /\ program = "get_tokens"
    /\ sm_pc = "post"
    /\ LostExchange(exchanged /\ kind = "refresh_network_error",
                    secret.refresh_token)
    /\ net_calls' = net_calls + 1
    /\ pre_refreshes' = pre_refreshes + 1
    /\ sm_pc' = "returned"
    /\ sm_result' = SM_NoneNone
    /\ cause' = kind
    /\ UNCHANGED <<program, now, token_file, tokenGlobals, g_pc,
                   calls, runs, hdr_token, sends, retry_refreshes, resp1,
                   resp2, call_outcome, persist_failed, refreshed_ok, secret>>
    /\ UNCHANGED <<pgVars, agVars>>

\* The caller has the return value; the function may be invoked again.
SM_Return ==
    /\ program = "get_tokens"
    /\ sm_pc = "returned"
    /\ sm_pc' = "idle"
    /\ UNCHANGED <<program, now, tokenServer, token_file, tokenGlobals, g_pc,
                   calls, runs, hdr_token, callHistory, persist_failed,
                   refreshed_ok, secret, sm_result>>
    /\ UNCHANGED <<pgVars, agVars>>

\* ------------------------------------------------ token program machine
GInit ==
    /\ program \in {"lambda_function", "get_tokens"}
    /\ now = StartTime
    /\ issued = 1
    /\ srv_refresh = 1
    /\ last_grant = NoGrant
    /\ sent_refresh = "none"
    /\ unsaved_rotation = FALSE
    /\ token_file \in InitFiles
    /\ secret \in InitSecrets
    /\ program = "lambda_function" => secret = SecretWith(1, 1)
    /\ program = "get_tokens" => token_file = MissingFile
    /\ current_access_token = None
    /\ current_refresh_token = None
    /\ token_expires_at = 0
    /\ g_pc = "start"
    /\ calls = 0
    /\ runs = 1
    /\ hdr_token = None
    /\ sends = 0
    /\ pre_refreshes = 0
    /\ retry_refreshes = 0
    /\ resp1 = "none"
    /\ resp2 = "none"
    /\ net_calls = 0
    /\ call_outcome = "none"
    /\ cause = "none"
    /\ persist_failed = FALSE
    /\ refreshed_ok = FALSE
    /\ sm_pc = "idle"
    /\ sm_result = SM_NoResult

GNext ==
    \/ LoadTokens
    \/ MainCheck
    \/ CallEntry
    \/ \E body \in Bodies(issued + 1), write \in WriteOutcomes :
          RefreshOk(body, write)
    \/ RefreshHttpError
    \/ \E exchanged \in BOOLEAN : RefreshNetworkError(exchanged)
    \/ \E status \in Statuses : Send(status)
    \/ \E status \in Statuses : Resend(status)
    \/ MainFinish
    \/ Tick
    \/ Restart
    \/ \E readOk \in BOOLEAN : SM_Invoke(readOk)
    \/ \E body \in Bodies(issued + 1), putOk \in BOOLEAN :
          SM_PostOk(body, putOk)
    \/ \E kind \in {"refresh_http_error", "refresh_network_error"},
          exchanged \in BOOLEAN :
          SM_PostFail(kind, exchanged)
    \/ SM_Return

\* Either token program, no paginator running.
GuardianInit == GInit /\ PgInit /\ AgIdle

SpecGuardian == GuardianInit /\ [][GNext]_vars

\* ------------------------------------------------------- paginator claims

\* C1: against a well-behaved API (constant total_count, every page the
\* exact slice offset .. min(offset+limit, total_count)-1) the paginator
\* returns the records 0 .. total_count-1, each once and in order.
C1_PaginatorCompleteness ==
    (pg_pc = "returned" /\ requests > 0 /\ wellBehaved)
        => /\ pg_result = ReturnList(Page(0, srvTotal))
           /\ Len(pg_result.items) = srvTotal

C1_Witness ==
    /\ pg_pc = "returned" /\ wellBehaved
    /\ requests >= 2
    /\ srvTotal = MaxTotal /\ Len(pg_result.items) = MaxTotal

\* C2: whatever the API answers, the loop issues at most
\* ceil(total_count / limit) + 1 page requests, and it has returned by the
\* time that many have been issued.
C2_PaginatorBoundedRequests ==
    /\ first_request => requests <= 1
    /\ ~first_request =>
          requests <= CeilDiv(total_count, pg_args.limit) + 1
    /\ (pg_pc = "loop" /\ ~first_request) =>
          requests < CeilDiv(total_count, pg_args.limit) + 1

C2_Witness ==
    /\ pg_pc = "returned" /\ ~wellBehaved /\ failedAt = 0
    /\ requests >= 2
    /\ Len(pg_result.items) # total_count
    /\ total_count # srvTotal

\* C3: a first page that reports total_count == 0 ends the fetch with the
\* empty list after exactly one request.
C3_EmptyResult ==
    total_count = 0 =>
        /\ pg_pc = "returned"
        /\ requests = 1
        /\ pg_result = ReturnList(<<>>)

C3_Witness ==
    /\ total_count = 0 /\ pg_pc = "returned" /\ lastResp = "ok"
    /\ srvTotal > 0

\* C4: a failed page request, first or later, makes the fetch return None:
\* not the records accumulated so far, not the empty list, and no request is
\* issued after the failed one.
C4_AllOrNothing ==
    failedAt # 0 =>
        /\ pg_pc = "returned"
        /\ pg_result.kind = "None"
        /\ pg_result # ReturnList(<<>>)
        /\ pg_result # ReturnList(all_records)
        /\ requests = failedAt

C4_Witness ==
    /\ failedAt >= 2 /\ Len(all_records) > 0
    /\ lastResp = "network_error"
    /\ pg_result = ReturnNone

\* C11: a call without access_token, without company_id or, for workloads,
\* without year_month returns None and no request has been issued.
C11_PreconditionRejection ==
    /\ (pg_pc # "idle" /\
          (pg_args.access_token = None \/ pg_args.company_id = None
             \/ (resource = "workloads" /\ pg_args.year_month = None)))
          => (pg_pc = "returned" /\ pg_result = ReturnNone /\ requests = 0)
    /\ requests > 0 =>
          (pg_args.access_token # None /\ pg_args.company_id # None)

C11_Witness ==
    /\ pg_pc = "returned" /\ pg_result = ReturnNone /\ requests = 0
    /\ resource = "workloads"
    /\ pg_args.access_token # None /\ pg_args.company_id # None
    /\ pg_args.year_month = None

\* C25: every page request carries the number of records accumulated so far
\* as its offset; a page moves the offset forward by the number of records
\* it returned, whatever limit is, and never backwards.
C25_OffsetInvariant ==
    [][/\ pg_pc' = "loop" => offset' = Len(all_records')
       /\ pg_pc = "loop" =>
             /\ offset' >= offset
             /\ offset' - offset = Len(all_records') - Len(all_records)
             /\ requests' = requests + 1]_vars

C25_Witness ==
    /\ pg_pc = "loop"
    /\ requests = 1
    /\ pg_args.limit = 1
    /\ offset = 2
    /\ Len(all_records) = 2

\* --------------------------------------------------- token program claims

InCall == g_pc \in {"pre_refresh", "send", "retry_refresh", "resend"}

\* C5: a 401 on the first send, with a refresh token held, is followed by
\* one refresh and, when that refresh succeeds, one re-send carrying the
\* new access token; a failing re-send raises. One call sends the wrapped
\* request at most twice and refreshes after a 401 at most once.
C5_RetryOn401 ==
    program = "lambda_function" =>
        /\ sends <= 2
        /\ retry_refreshes <= 1
        /\ (resp1 = "401" /\ g_pc # "retry_refresh" /\ retry_refreshes = 0)
              => current_refresh_token = None
        /\ g_pc = "resend" =>
              /\ sends = 1 /\ resp1 = "401" /\ retry_refreshes = 1
              /\ hdr_token = current_access_token
              /\ hdr_token \in {None, issued}
        /\ sends = 2 => (retry_refreshes = 1 /\ ~InCall)
        /\ resp2 \notin {"none", "200"} =>
              /\ g_pc = "ended_error"
              /\ call_outcome \in {"HTTPError", "ConnectionError"}

C5_Witness ==
    /\ program = "lambda_function"
    /\ pre_refreshes = 0 /\ retry_refreshes = 1
    /\ sends = 2 /\ resp1 = "401" /\ resp2 = "401"
    /\ hdr_token = issued
    /\ call_outcome = "HTTPError"

\* C6 as stated: a wrapped request that is sent without a refresh before it
\* carries a held access token whose expires_at is later than now; a stored
\* expires_at of 0 counts as expired.
C6_Original ==
    (program = "lambda_function" /\ g_pc = "send" /\ pre_refreshes = 0)
        => (current_access_token # None /\ now < token_expires_at)

\* C6, amended: a call made while no access token is held, or while
\* expires_at > 0 and now >= expires_at, refreshes before the wrapped request
\* is sent; a request sent without that refresh carries a held access token
\* whose expires_at is 0 (unknown) or later than now.
C6_PreCallRefresh ==
    program = "lambda_function" =>
        /\ (g_pc = "send" /\ pre_refreshes = 0) =>
              /\ current_access_token # None
              /\ (token_expires_at = 0 \/ now < token_expires_at)
              /\ net_calls = 0
        /\ (g_pc = "send" /\ pre_refreshes # 0) =>
              /\ pre_refreshes = 1 /\ net_calls = 1 /\ sends = 0
              /\ hdr_token = current_access_token
              /\ hdr_token \in {None, issued}
        /\ sends >= 1 => pre_refreshes <= 1

C6_Witness ==
    /\ program = "lambda_function"
    /\ g_pc = "send" /\ pre_refreshes = 1
    /\ now > StartTime
    /\ hdr_token = issued

\* C18: while the access token of the last grant is held, expires_at is the
\* time of that refresh plus expires_in (3600 when the response has none)
\* minus 300, which is 300 seconds before the actual expiry and so strictly
\* earlier; a request sent without a refresh before it is sent more than
\* 300 seconds before the token's actual expiry.
C18_ExpiryMargin ==
    (program = "lambda_function" /\ last_grant.at > 0
        /\ current_access_token = issued) =>
        /\ token_expires_at
              = last_grant.at
                + (IF last_grant.has_expires_in THEN last_grant.expires_in
                                                ELSE 3600)
                - 300
        /\ last_grant.has_expires_in =>
              /\ token_expires_at < last_grant.at + last_grant.expires_in
              /\ (last_grant.at + last_grant.expires_in) - token_expires_at
                    >= 300
              /\ (g_pc = "send" /\ pre_refreshes = 0) =>
                    now + 300 < last_grant.at + last_grant.expires_in
        /\ token_file.state = "ok" /\ token_file.access_token = issued =>
              (token_file.has_expires_at
                 /\ token_file.expires_at = token_expires_at)

C18_Witness ==
    /\ program = "lambda_function"
    /\ g_pc = "send" /\ pre_refreshes = 0 /\ calls >= 1
    /\ last_grant.at > StartTime
    /\ last_grant.has_expires_in /\ last_grant.expires_in = 2 * MARGIN
    /\ current_access_token = issued
    /\ token_expires_at = last_grant.at + MARGIN
    /\ now < token_expires_at

\* C24: a refresh that fails, by an error status or by a network error,
\* ends call_freee_api with a request or HTTP error, and the wrapped request
\* is not sent (refresh before the call) or not sent again (refresh after a
\* 401).
C24_RefreshFailureFatal ==
    (program = "lambda_function"
        /\ cause \in {"refresh_http_error", "refresh_network_error"}) =>
        /\ g_pc = "ended_error"
        /\ call_outcome \in {"RequestException:refresh_failed", "HTTPError"}
        /\ pre_refreshes = 1 => sends = 0
        /\ retry_refreshes = 1 => (sends = 1 /\ resp2 = "none")

C27_FailedRefreshFrame ==
    [][((program = "lambda_function"
           /\ g_pc \in {"pre_refresh", "retry_refresh"})
        \/ (program = "get_tokens" /\ sm_pc = "post")) =>
          /\ cause' \in {"refresh_http_error", "refresh_network_error",
                         "refresh_empty_body", "tokens_missing_in_response"}
                => UNCHANGED <<tokenGlobals, token_file, secret>>
          /\ current_access_token # None => current_access_token' # None
          /\ current_refresh_token # None => current_refresh_token' # None
          /\ (secret.state = "ok" /\ secret.refresh_token # None) =>
                (secret'.state = "ok" /\ secret'.refresh_token # None)]_vars

FileInSync ==
    /\ token_file.state = "ok"
    /\ token_file.access_token = current_access_token
    /\ token_file.refresh_token = current_refresh_token
    /\ token_file.has_expires_at
    /\ token_file.expires_at = token_expires_at

\* C8: once a refresh has completed, store included, the stored credential
\* is the one held (lambda_function: tokens.json against the globals) or
\* returned (get_tokens: the secret against the returned pair), after any
\* number of refreshes.
C8_CredentialPersisted ==
    /\ (program = "lambda_function" /\ refreshed_ok /\ g_pc # "crashed")
          => FileInSync
    /\ (program = "get_tokens" /\ sm_result.kind = "pair") =>
          /\ secret.state = "ok"
          /\ secret.access_token = sm_result.access_token
          /\ secret.refresh_token = sm_result.refresh_token

C8_Witness ==
    /\ program = "lambda_function"
    /\ refreshed_ok /\ g_pc = "main_call"
    /\ issued = 3 /\ current_refresh_token = 3
    /\ token_file.refresh_token = 3

\* C9: when new tokens were issued and storing them failed, the refresh does
\* not report success: lambda_function dies of the uncaught OSError, and
\* get_tokens returns None instead of the token pair.
C9_PersistFailureSurfaced ==
    persist_failed =>
        /\ program = "lambda_function" =>
              /\ g_pc = "crashed"
              /\ call_outcome = "OSError"
        /\ program = "get_tokens" =>
              /\ sm_pc \in {"returned", "idle"}
              /\ sm_result = SM_None

C9_Witness ==
    /\ program = "lambda_function"
    /\ persist_failed /\ g_pc = "crashed"
    /\ srv_refresh # token_file.refresh_token
    /\ retry_refreshes = 1

\* What the caller gets: the exception of call_freee_api or the return value
\* of refresh_freee_tokens_with_secrets_manager.
Outcome ==
    IF program = "lambda_function" THEN call_outcome ELSE sm_result.kind

NoRefreshTokenOutcome ==
    IF program = "lambda_function"
       THEN "RequestException:no_refresh_token" ELSE "(None, None)"

\* C10: a missing refresh token fails before any request to the token
\* endpoint or the API, and its outcome differs from the outcome of a network
\* error during the refresh, which differs from the outcome of a network
\* error during the wrapped call.
C10_DistinctErrorKinds ==
    /\ cause = "no_refresh_token" =>
          (net_calls = 0 /\ Outcome = NoRefreshTokenOutcome)
    /\ cause = "call_network_error" => Outcome = "ConnectionError"
    /\ cause = "refresh_network_error" =>
          Outcome \notin {NoRefreshTokenOutcome, "ConnectionError"}

\* ------------------------------------------- process_workloads_to_csv.py
MaxWorkloads == 3   \* entries handed to process_workloads_to_csv_data
MaxProjects == 2    \* records handed to create_project_lookup

\* The tag names the project tags are tested against: '社内' and '社外'.
INTERNAL == "internal"
EXTERNAL == "external"

\* A dict is a record of its values, "missing" naming the keys it lacks and
\* "null" the keys whose value is None.
WTag(g, n) == [tag_group_name |-> g, tag_name |-> n,
               missing |-> {}, null |-> {}]
PTag(g, n) == [tag_group_name |-> g, tag_name |-> n]

Workload(person, pid, memo, minutes, tags) ==
    [person_name |-> person, project_id |-> pid, memo |-> memo,
     minutes |-> minutes, workload_tags |-> tags,
     missing |-> {}, null |-> {}]

Project(id, name, code, tags) ==
    [id |-> id, name |-> name, code |-> code, project_tags |-> tags,
     missing |-> {}, null |-> {}]

\* Python's None where the code expects a str, a memo or a number of minutes.
NoneStr == "None"
NoneMemo == <<-1>>
NoneMinutes == -1

\* d.get(key, default): the default for a missing key, None for a null one.
Get(d, key, value, default, none) ==
    IF key \in d.missing THEN default
    ELSE IF key \in d.null THEN none
    ELSE value

\* wl.get('person_name', ''), wl.get('memo', ''), wl.get('minutes', 0)
PersonNameOf(wl) == Get(wl, "person_name", wl.person_name, "", NoneStr)
MemoOf(wl) == Get(wl, "memo", wl.memo, <<>>, NoneMemo)
MinutesOf(wl) == Get(wl, "minutes", wl.minutes, 0, NoneMinutes)
\* wl.get('project_id')
ProjectIdOf(wl) == Get(wl, "project_id", wl.project_id, None, None)
\* wl.get('workload_tags'), tested for truth only: None counts as [].
WorkloadTagsOf(wl) == Get(wl, "workload_tags", wl.workload_tags, <<>>, <<>>)
\* wt.get('tag_group_name', ''), wt.get('tag_name', '')
TagGroupNameOf(wt) == Get(wt, "tag_group_name", wt.tag_group_name, "", NoneStr)
TagNameOf(wt) == Get(wt, "tag_name", wt.tag_name, "", NoneStr)
\* project_info.get('name', ''), .get('code', ''), .get('project_tags')
ProjectNameOf(pr) == Get(pr, "name", pr.name, "", NoneStr)
ProjectCodeOf(pr) == Get(pr, "code", pr.code, "", NoneStr)
ProjectTagsOf(pr) == Get(pr, "project_tags", pr.project_tags, <<>>, <<>>)
\* project['id'] of a record that has the key
ProjectIdKey(pr) == IF "id" \in pr.null THEN None ELSE pr.id

\* Memos are strings of code points: "" is <<>>, "a" is <<97>>.
MemoValues == {<<>>, <<97>>, <<98>>}
MinuteValues == {1, 35, 90}
PersonValues == {"hino", "sato"}
\* Project ids 1 and 2 may resolve; 9 is in no project list.
ProjectIdValues == {1, 2, 9}
WorkloadTagLists ==
    {<<>>, <<WTag("PM", "t1")>>, <<WTag("PM", "t1"), WTag("dev", "t2")>>,
     <<WTag("PM", "t1"), WTag("PM", "t1")>>}

BaseWorkload == Workload("hino", 1, <<97>>, 35, <<WTag("PM", "t1")>>)

\* The entries that differ from BaseWorkload in at most one field.
WorkloadPool ==
    {Workload(p, BaseWorkload.project_id, BaseWorkload.memo,
              BaseWorkload.minutes, BaseWorkload.workload_tags) :
        p \in PersonValues}
    \cup {Workload(BaseWorkload.person_name, i, BaseWorkload.memo,
                   BaseWorkload.minutes, BaseWorkload.workload_tags) :
        i \in ProjectIdValues}
    \cup {Workload(BaseWorkload.person_name, BaseWorkload.project_id, m,
                   BaseWorkload.minutes, BaseWorkload.workload_tags) :
        m \in MemoValues}
    \cup {Workload(BaseWorkload.person_name, BaseWorkload.project_id,
                   BaseWorkload.memo, n, BaseWorkload.workload_tags) :
        n \in MinuteValues}
    \cup {Workload(BaseWorkload.person_name, BaseWorkload.project_id,
                   BaseWorkload.memo, BaseWorkload.minutes, t) :
        t \in WorkloadTagLists}

\* Project records: the marker in tag_group_name, as in dummy_all_projects;
\* both markers in tag_name after another tag; no tag at all.  Two records
\* share a name, two share an id.
ProjectPool ==
    { Project(1, "A", "P-1", <<PTag(EXTERNAL, "consulting")>>),
      Project(2, "A", "P-2", <<PTag("kind", "other"), PTag("kind", INTERNAL),
                               PTag("kind", EXTERNAL)>>),
      Project(1, "B", "P-3", <<>>) }

SeqsUpTo(S, n) == UNION {[1..k -> S] : k \in 0..n}

\* create_project_lookup: project_lookup[project['id']] = project, in order.
RECURSIVE LookupFrom(_, _, _)
LookupFrom(projects_list, i, acc) ==
    IF i > Len(projects_list) THEN acc
    ELSE LookupFrom(projects_list, i + 1,
                    (ProjectIdKey(projects_list[i]) :> projects_list[i]) @@ acc)

\* The pass that keeps the first record of an id.
create_project_lookup_Mutant(projects_list) ==
    LookupFrom([i \in 1..Len(projects_list) |->
                   projects_list[Len(projects_list) + 1 - i]], 1, <<>>)
create_project_lookup(projects_list) == LookupFrom(projects_list, 1, <<>>)

\* The scan of project_tags with its two break statements.
RECURSIVE ScanProjectTags(_, _)
ScanProjectTags(tags, i) ==
    IF i > Len(tags)
       THEN [internal_external |-> "", project_tag_name |-> ""]
    ELSE IF tags[i].tag_name = INTERNAL
       THEN [internal_external |-> INTERNAL,
             project_tag_name |-> tags[i].tag_name]
    ELSE IF tags[i].tag_name = EXTERNAL
       THEN [internal_external |-> EXTERNAL,
             project_tag_name |-> tags[i].tag_name]
    ELSE ScanProjectTags(tags, i + 1)

\* The project fields of an entry: project_lookup_dict.get(project_id) and
\* what is read from the record when there is one.
ProjectFields_Mutant(lookup, pid) ==
    IF pid \in DOMAIN lookup
       THEN [project_name |-> ProjectNameOf(lookup[pid]),
             project_code |-> ProjectCodeOf(lookup[pid])] @@
            ScanProjectTags(ProjectTagsOf(lookup[pid]), 1)
       ELSE [project_name |-> "unknown", project_code |-> "",
             internal_external |-> "", project_tag_name |-> ""]
ProjectFields(lookup, pid) ==
    IF pid \in DOMAIN lookup
       THEN [project_name |-> ProjectNameOf(lookup[pid]),
             project_code |-> ProjectCodeOf(lookup[pid])] @@
            ScanProjectTags(ProjectTagsOf(lookup[pid]), 1)
       ELSE [project_name |-> "", project_code |-> "",
             internal_external |-> "", project_tag_name |-> ""]

RawRow(wl, pf, group, tag, minutes) ==
    [person_name |-> PersonNameOf(wl),
     internal_external |-> pf.internal_external,
     project_name |-> pf.project_name,
     project_code |-> pf.project_code,
     workload_tag_group_name |-> group,
     workload_tag_name |-> tag,
     project_tag_name |-> pf.project_tag_name,
     memo |-> MemoOf(wl),
     minutes |-> minutes]

\* The rows one entry appends to csv_rows_raw: one per workload tag, or one
\* with empty tag fields.
WorkloadRows_Mutant(wl, lookup) ==
    [j \in 1..Len(WorkloadTagsOf(wl)) |->
        RawRow(wl, ProjectFields(lookup, ProjectIdOf(wl)),
               TagGroupNameOf(WorkloadTagsOf(wl)[j]),
               TagNameOf(WorkloadTagsOf(wl)[j]),
               MinutesOf(wl) \div Len(WorkloadTagsOf(wl)))]
WorkloadRows(wl, lookup) ==
    IF Len(WorkloadTagsOf(wl)) > 0
       THEN [j \in 1..Len(WorkloadTagsOf(wl)) |->
                RawRow(wl, ProjectFields(lookup, ProjectIdOf(wl)),
                       TagGroupNameOf(WorkloadTagsOf(wl)[j]),
                       TagNameOf(WorkloadTagsOf(wl)[j]), MinutesOf(wl))]
       ELSE <<RawRow(wl, ProjectFields(lookup, ProjectIdOf(wl)), "", "",
                     MinutesOf(wl))>>

\* for wl in all_workloads: ...
RECURSIVE Explode(_, _, _)
Explode(workloads, lookup, i) ==
    IF i > Len(workloads) THEN <<>>
    ELSE WorkloadRows(workloads[i], lookup) \o Explode(workloads, lookup, i + 1)

\* key = (row['person_name'], row['project_name'], row['workload_tag_name'])
RowKey_Mutant(row) == <<row.person_name, row.project_name, "">>
RowKey(row) == <<row.person_name, row.project_name, row.workload_tag_name>>

\* Position of key in the insertion-ordered aggregated_data, 0 when absent.
RECURSIVE KeyIndex(_, _, _)
KeyIndex(groups, key, i) ==
    IF i > Len(groups) THEN 0
    ELSE IF groups[i].key = key THEN i
    ELSE KeyIndex(groups, key, i + 1)

\* if row['memo']: aggregated_data[key]['memos'].append(row['memo'])
AppendMemo(memos, memo) ==
    IF memo # <<>> /\ memo # NoneMemo THEN Append(memos, memo) ELSE memos

\* A group after one more row of its key.
UpdatedGroup_Mutant(g, row) ==
    [g EXCEPT !.minutes = @ + row.minutes,
              !.memos = AppendMemo(@, row.memo),
              !.first_occurrence_row = row]
UpdatedGroup(g, row) ==
    [g EXCEPT !.minutes = @ + row.minutes,
              !.memos = AppendMemo(@, row.memo)]

\* A group created by the first row of its key.
NewGroup_Mutant(row) ==
    [key |-> RowKey(row), minutes |-> 0,
     memos |-> AppendMemo(<<>>, row.memo), first_occurrence_row |-> row]
NewGroup(row) ==
    [key |-> RowKey(row), minutes |-> row.minutes,
     memos |-> AppendMemo(<<>>, row.memo), first_occurrence_row |-> row]

\* One iteration of "for row in csv_rows_raw".
AddRow_Mutant(groups, row) ==
    IF KeyIndex(groups, RowKey(row), 1) = 0
       THEN <<NewGroup(row)>> \o groups
       ELSE [groups EXCEPT ![KeyIndex(groups, RowKey(row), 1)] =
                UpdatedGroup(@, row)]
AddRow(groups, row) ==
    IF KeyIndex(groups, RowKey(row), 1) = 0
       THEN Append(groups, NewGroup(row))
       ELSE [groups EXCEPT ![KeyIndex(groups, RowKey(row), 1)] =
                UpdatedGroup(@, row)]

RECURSIVE Reduce(_, _, _)
Reduce(rows, i, groups) ==
    IF i > Len(rows) THEN groups
    ELSE Reduce(rows, i + 1, AddRow(groups, rows[i]))

\* Python's order on str: code point by code point, a prefix first.
RECURSIVE StrLess(_, _)
StrLess(a, b) ==
    IF b = <<>> THEN FALSE
    ELSE IF a = <<>> THEN TRUE
    ELSE IF Head(a) # Head(b) THEN Head(a) < Head(b)
    ELSE StrLess(Tail(a), Tail(b))

SeqRange(q) == {q[i] : i \in 1..Len(q)}

\* sorted(S) for a set of strings.
RECURSIVE Sorted(_)
Sorted(S) ==
    IF S = {} THEN <<>>
    ELSE LET m == CHOOSE x \in S : \A y \in S \ {x} : StrLess(x, y)
         IN <<m>> \o Sorted(S \ {m})

\* sep.join(parts)
RECURSIVE Join(_, _)
Join(parts, sep) ==
    IF parts = <<>> THEN <<>>
    ELSE IF Len(parts) = 1 THEN parts[1]
    ELSE parts[1] \o sep \o Join(Tail(parts), sep)

\* ", "
COMMA_SPACE == <<44, 32>>

\* ", ".join(sorted(set(value['memos'])))
MemoField_Mutant(memos) == Join(memos, COMMA_SPACE)
MemoField(memos) == Join(Sorted(SeqRange(memos)), COMMA_SPACE)

\* round(n / d, 0) of Python 3 for integers n >= 0, d > 0: half to even.
RoundHalfEven(n, d) ==
    LET q == n \div d
        r == n % d
    IN IF 2 * r < d THEN q
       ELSE IF 2 * r > d THEN q + 1
       ELSE IF q % 2 = 0 THEN q ELSE q + 1

\* round(total_minutes / 60, 2), in hundredths of an hour.
TotalHours_Mutant(total_minutes) == (total_minutes * 100) \div 60
TotalHours(total_minutes) == RoundHalfEven(total_minutes * 100, 60)

\* The dict appended to final_csv_data for one group.
FinalRow(g) ==
    [person_name |-> g.first_occurrence_row.person_name,
     internal_external |-> g.first_occurrence_row.internal_external,
     project_name |-> g.first_occurrence_row.project_name,
     workload_tag_name |-> g.first_occurrence_row.workload_tag_name,
     project_tag_name |-> g.first_occurrence_row.project_tag_name,
     memo |-> MemoField(g.memos),
     total_minutes |-> g.minutes,
     total_hours |-> TotalHours(g.minutes)]

Finalize(groups) == [k \in 1..Len(groups) |-> FinalRow(groups[k])]

\* ------------------------------------------------- aggregation actions
AgInit ==
    /\ ag_pc = "input"
    /\ all_workloads \in SeqsUpTo(WorkloadPool, MaxWorkloads)
    /\ all_projects \in SeqsUpTo(ProjectPool, MaxProjects)
    /\ project_lookup = <<>>
    /\ csv_rows_raw = <<>>
    /\ aggregated_data = <<>>
    /\ final_csv_data = <<>>
    /\ ag_error = "none"

\* project_lookup = create_project_lookup(dummy_all_projects)
\* project['id'] raises KeyError on a record without the key.
CreateProjectLookup ==
    /\ ag_pc = "input"
    /\ IF \E i \in 1..Len(all_projects) : "id" \in all_projects[i].missing
          THEN /\ ag_pc' = "raised"
               /\ ag_error' = "KeyError"
               /\ UNCHANGED project_lookup
          ELSE /\ project_lookup' = create_project_lookup(all_projects)
               /\ ag_pc' = "lookup"
               /\ UNCHANGED ag_error
    /\ UNCHANGED <<all_workloads, all_projects, csv_rows_raw, aggregated_data,
                   final_csv_data>>
    /\ UNCHANGED <<pgVars, gVars>>

\* final_csv_data = process_workloads_to_csv_data(all_workloads, lookup)
\* aggregated_data[key]['minutes'] += row['minutes'] raises TypeError on a
\* row whose minutes are None.
ProcessWorkloads ==
    /\ ag_pc = "lookup"
    /\ csv_rows_raw' = Explode(all_workloads, project_lookup, 1)
    /\ IF \E i \in 1..Len(csv_rows_raw') : csv_rows_raw'[i].minutes = NoneMinutes
          THEN /\ ag_pc' = "raised"
               /\ ag_error' = "TypeError"
               /\ UNCHANGED <<aggregated_data, final_csv_data>>
          ELSE /\ aggregated_data' = Reduce(csv_rows_raw', 1, <<>>)
               /\ final_csv_data' = Finalize(aggregated_data')
               /\ ag_pc' = "done"
               /\ UNCHANGED ag_error
    /\ UNCHANGED <<all_workloads, all_projects, project_lookup>>
    /\ UNCHANGED <<pgVars, gVars>>

AgNext == CreateProjectLookup \/ ProcessWorkloads

MaxDefective == 1   \* entries and records of an input with defective dicts

\* d with the keys of missing removed and the keys of null set to None.
Defective(d, missing, null) == [d EXCEPT !.missing = missing, !.null = null]

WorkloadKeys == {"person_name", "project_id", "memo", "minutes",
                 "workload_tags"}
ProjectKeys == {"id", "name", "code", "project_tags"}

\* BaseWorkload, and BaseWorkload with one key, or the tag_name of its
\* workload tag, missing or null.
DefectiveWorkloads ==
    {BaseWorkload}
    \cup {Defective(BaseWorkload, {f}, {}) : f \in WorkloadKeys}
    \cup {Defective(BaseWorkload, {}, {f}) : f \in WorkloadKeys}
    \cup {[BaseWorkload EXCEPT !.workload_tags =
              <<Defective(WTag("PM", "t1"), {"tag_name"}, {})>>],
          [BaseWorkload EXCEPT !.workload_tags =
              <<Defective(WTag("PM", "t1"), {}, {"tag_name"})>>]}

BaseProject == Project(1, "A", "P-1", <<PTag("kind", INTERNAL)>>)

DefectiveProjects ==
    {BaseProject}
    \cup {Defective(BaseProject, {f}, {}) : f \in ProjectKeys}
    \cup {Defective(BaseProject, {}, {f}) : f \in ProjectKeys}

AgDefectiveInit ==
    /\ ag_pc = "input"
    /\ all_workloads \in SeqsUpTo(DefectiveWorkloads, MaxDefective)
    /\ all_projects \in SeqsUpTo(DefectiveProjects, MaxDefective)
    /\ project_lookup = <<>>
    /\ csv_rows_raw = <<>>
    /\ aggregated_data = <<>>
    /\ final_csv_data = <<>>
    /\ ag_error = "none"

\* One aggregation of an input with defective dicts.
DefaultsInit == AgDefectiveInit /\ PgInit /\ GuardianIdle

SpecDefaults == DefaultsInit /\ [][AgNext]_vars

\* One aggregation, the other programs at rest.
AggregatorInit == AgInit /\ PgInit /\ GuardianIdle

SpecAggregator == AggregatorInit /\ [][AgNext]_vars

\* ------------------------------------------------- aggregation claims
\* max(1, N) for an entry with N workload tags.
FanOut(wl) == IF Len(wl.workload_tags) >= 1 THEN Len(wl.workload_tags) ELSE 1

\* The number of flattened rows the entries before entry i account for.
RECURSIVE RowsBefore(_, _)
RowsBefore(workloads, i) ==
    IF i <= 1 THEN 0
    ELSE RowsBefore(workloads, i - 1) + FanOut(workloads[i - 1])

\* C12: every entry contributes exactly max(1, N) consecutive flattened rows,
\* one per workload tag in order, each with the entry's full minutes, and one
\* row with empty tag fields when it has no tag.
C12_ExplodeFanOut ==
    ag_pc = "done" =>
        /\ Len(csv_rows_raw) = RowsBefore(all_workloads, Len(all_workloads) + 1)
        /\ \A i \in 1..Len(all_workloads) :
              LET wl == all_workloads[i]
                  n == Len(wl.workload_tags)
                  base == RowsBefore(all_workloads, i)
              IN /\ \A j \in 1..FanOut(wl) :
                        /\ csv_rows_raw[base + j].minutes = wl.minutes
                        /\ csv_rows_raw[base + j].person_name = wl.person_name
                        /\ csv_rows_raw[base + j].memo = wl.memo
                 /\ \A j \in 1..n :
                        /\ csv_rows_raw[base + j].workload_tag_name
                              = wl.workload_tags[j].tag_name
                        /\ csv_rows_raw[base + j].workload_tag_group_name
                              = wl.workload_tags[j].tag_group_name
                 /\ n = 0 =>
                        /\ csv_rows_raw[base + 1].workload_tag_name = ""
                        /\ csv_rows_raw[base + 1].workload_tag_group_name = ""

C12_Witness ==
    /\ ag_pc = "done"
    /\ Len(all_workloads) = 3
    /\ Len(all_workloads[1].workload_tags) = 2
    /\ Len(all_workloads[2].workload_tags) = 0
    /\ Len(all_workloads[3].workload_tags) = 1
    /\ Len(csv_rows_raw) = 4
    /\ csv_rows_raw[2].minutes = 35

\* Sum of the minutes of the entries i..Len(workloads).
RECURSIVE SumWorkloadMinutes(_, _)
SumWorkloadMinutes(workloads, i) ==
    IF i > Len(workloads) THEN 0
    ELSE workloads[i].minutes + SumWorkloadMinutes(workloads, i + 1)

\* Sum of total_minutes of the output rows i..Len(rows).
RECURSIVE SumTotalMinutes(_, _)
SumTotalMinutes(rows, i) ==
    IF i > Len(rows) THEN 0
    ELSE rows[i].total_minutes + SumTotalMinutes(rows, i + 1)

\* C13: when every entry has at most one workload tag, the total_minutes of
\* the output rows add up to the minutes of the input entries.
C13_MinutesConserved ==
    (ag_pc = "done" /\
       \A i \in 1..Len(all_workloads) : Len(all_workloads[i].workload_tags) <= 1)
    => SumTotalMinutes(final_csv_data, 1) = SumWorkloadMinutes(all_workloads, 1)

C13_Witness ==
    /\ ag_pc = "done"
    /\ Len(all_workloads) = 3
    /\ \A i \in 1..3 : Len(all_workloads[i].workload_tags) <= 1
    /\ \E i \in 1..3 : all_workloads[i].project_id \notin DOMAIN project_lookup
    /\ \E i \in 1..3 : all_workloads[i].project_id \in DOMAIN project_lookup
    /\ Len(final_csv_data) = 2
    /\ SumTotalMinutes(final_csv_data, 1) = 160

\* The aggregation key of a flattened row or of an output row.
KeyOf(r) == <<r.person_name, r.project_name, r.workload_tag_name>>

\* Sum of the minutes of the flattened rows i.. that carry key.
RECURSIVE SumMinutesOfKey(_, _, _)
SumMinutesOfKey(rows, key, i) ==
    IF i > Len(rows) THEN 0
    ELSE (IF KeyOf(rows[i]) = key THEN rows[i].minutes ELSE 0)
         + SumMinutesOfKey(rows, key, i + 1)

\* C14: the output has one row per distinct key of the flattened rows, no two
\* output rows share a key, and total_minutes is the sum over the key's rows.
C14_Reduce ==
    ag_pc = "done" =>
        /\ {KeyOf(final_csv_data[k]) : k \in 1..Len(final_csv_data)}
              = {KeyOf(csv_rows_raw[i]) : i \in 1..Len(csv_rows_raw)}
        /\ \A k, l \in 1..Len(final_csv_data) :
              KeyOf(final_csv_data[k]) = KeyOf(final_csv_data[l]) => k = l
        /\ \A k \in 1..Len(final_csv_data) :
              final_csv_data[k].total_minutes
                 = SumMinutesOfKey(csv_rows_raw, KeyOf(final_csv_data[k]), 1)

C14_Witness ==
    /\ ag_pc = "done"
    /\ Len(csv_rows_raw) = 3
    /\ Len(final_csv_data) = 2
    /\ KeyOf(csv_rows_raw[1]) = KeyOf(csv_rows_raw[3])
    /\ csv_rows_raw[1].minutes = 35
    /\ csv_rows_raw[3].minutes = 90
    /\ final_csv_data[1].total_minutes = 125

\* The memos of the flattened rows i.. that carry key, in order.
RECURSIVE MemosOfKey(_, _, _)
MemosOfKey(rows, key, i) ==
    IF i > Len(rows) THEN <<>>
    ELSE (IF KeyOf(rows[i]) = key THEN <<rows[i].memo>> ELSE <<>>)
         \o MemosOfKey(rows, key, i + 1)

\* text lists every member of M once, in ascending order, joined by ", ".
IsSortedJoin(text, M) ==
    \E q \in [1..Cardinality(M) -> M] :
        /\ \A i, j \in 1..Cardinality(M) : i < j => StrLess(q[i], q[j])
        /\ text = Join(q, COMMA_SPACE)

\* C15: the memo field of an output row lists the distinct non-empty memos of
\* the group's flattened rows in ascending order, joined by ", "; a group
\* with no non-empty memo has the empty text; b, a, a, "" give "a, b".
C15_MemoConcatenation ==
    ag_pc = "done" =>
        \A k \in 1..Len(final_csv_data) :
            LET memos == MemosOfKey(csv_rows_raw, KeyOf(final_csv_data[k]), 1)
            IN /\ IsSortedJoin(final_csv_data[k].memo, SeqRange(memos) \ {<<>>})
               /\ SeqRange(memos) \subseteq {<<>>} =>
                     final_csv_data[k].memo = <<>>
               /\ memos = <<(<<98>>), <<97>>, <<97>>, <<>> >> =>
                     final_csv_data[k].memo = <<97, 44, 32, 98>>

C15_Witness ==
    /\ ag_pc = "done"
    /\ Len(final_csv_data) = 1
    /\ MemosOfKey(csv_rows_raw, KeyOf(final_csv_data[1]), 1)
          = <<(<<98>>), <<97>>, <<97>>, <<>> >>
    /\ final_csv_data[1].memo = <<97, 44, 32, 98>>

\* C16: an entry whose project_id is not in the lookup is aggregated: each of
\* its keys has an output row with empty project name, classification and
\* project tag, the group's representative row has an empty project code,
\* and the row's total counts the entry's minutes.
C16_DanglingReference ==
    ag_pc = "done" =>
        \A i \in 1..Len(all_workloads) :
            all_workloads[i].project_id \notin DOMAIN project_lookup =>
                \A j \in 1..FanOut(all_workloads[i]) :
                    LET raw == csv_rows_raw[RowsBefore(all_workloads, i) + j]
                    IN \E k \in 1..Len(final_csv_data) :
                          /\ KeyOf(final_csv_data[k]) = KeyOf(raw)
                          /\ final_csv_data[k].person_name
                                = all_workloads[i].person_name
                          /\ final_csv_data[k].project_name = ""
                          /\ final_csv_data[k].internal_external = ""
                          /\ final_csv_data[k].project_tag_name = ""
                          /\ aggregated_data[k].first_occurrence_row.project_code
                                = ""
                          /\ final_csv_data[k].total_minutes
                                = SumMinutesOfKey(csv_rows_raw, KeyOf(raw), 1)
                          /\ final_csv_data[k].total_minutes
                                >= all_workloads[i].minutes

C16_Witness ==
    /\ ag_pc = "done"
    /\ Len(all_workloads) = 2
    /\ Len(all_projects) = 2
    /\ all_workloads[1].project_id \in DOMAIN project_lookup
    /\ all_workloads[2].project_id \notin DOMAIN project_lookup
    /\ Len(final_csv_data) = 2
    /\ final_csv_data[2].project_name = ""
    /\ final_csv_data[2].total_minutes = 35

\* Rounding half away from zero of n / d, for n >= 0 and d > 0.
RoundHalfAway(n, d) == (2 * n + d) \div (2 * d)

\* C17: total_hours is total_minutes / 60 to the nearest hundredth, the two
\* rounding rules agree on it and total_minutes * 100 / 60 is never half-way;
\* 125 minutes are 2.08 hours, 90 are 1.5, 1 is 0.02.
C17_Rounding ==
    ag_pc = "done" =>
        \A k \in 1..Len(final_csv_data) :
            LET m == final_csv_data[k].total_minutes
                h == final_csv_data[k].total_hours
            IN /\ 2 * (h * 60 - m * 100) < 60
               /\ 2 * (m * 100 - h * 60) < 60
               /\ (m * 100) % 60 # 30
               /\ h = RoundHalfAway(m * 100, 60)
               /\ m = 125 => h = 208
               /\ m = 90 => h = 150
               /\ m = 1 => h = 2

C17_Witness ==
    /\ ag_pc = "done"
    /\ Len(final_csv_data) = 2
    /\ final_csv_data[1].total_minutes = 125
    /\ final_csv_data[1].total_hours = 208
    /\ final_csv_data[2].total_minutes = 35
    /\ final_csv_data[2].total_hours = 58

\* The marker a tag carries in its group or in its name, "" when it has none.
MarkerOf(t) ==
    IF t.tag_name \in {INTERNAL, EXTERNAL} THEN t.tag_name
    ELSE IF t.tag_group_name \in {INTERNAL, EXTERNAL} THEN t.tag_group_name
    ELSE ""

\* The marker of the first tag of tags[i..] that carries one.
RECURSIVE FirstMarker(_, _)
FirstMarker(tags, i) ==
    IF i > Len(tags) THEN ""
    ELSE IF MarkerOf(tags[i]) # "" THEN MarkerOf(tags[i])
    ELSE FirstMarker(tags, i + 1)

\* C19: for a resolved project, internal_external is the marker of the first
\* project tag whose group or name equals the internal or the external
\* marker, and empty when no tag matches.
C19_Classification ==
    ag_pc = "done" =>
        \A i \in 1..Len(all_workloads) :
            all_workloads[i].project_id \in DOMAIN project_lookup =>
                \A j \in 1..FanOut(all_workloads[i]) :
                    csv_rows_raw[RowsBefore(all_workloads, i) + j].internal_external
                       = FirstMarker(
                            project_lookup[all_workloads[i].project_id].project_tags,
                            1)

\* Index of the first flattened row of rows[i..] that carries key.
RECURSIVE FirstIndexOfKey(_, _, _)
FirstIndexOfKey(rows, key, i) ==
    IF i > Len(rows) THEN 0
    ELSE IF KeyOf(rows[i]) = key THEN i
    ELSE FirstIndexOfKey(rows, key, i + 1)

\* C20: the classification and the project tag of an output row, and the
\* project code its group keeps, are those of the first flattened row of the
\* group, whatever the later rows of the group carry.
C20_FirstSeenRepresentative ==
    ag_pc = "done" =>
        \A k \in 1..Len(final_csv_data) :
            LET f == FirstIndexOfKey(csv_rows_raw, KeyOf(final_csv_data[k]), 1)
            IN /\ f >= 1
               /\ final_csv_data[k].internal_external
                     = csv_rows_raw[f].internal_external
               /\ final_csv_data[k].project_tag_name
                     = csv_rows_raw[f].project_tag_name
               /\ aggregated_data[k].first_occurrence_row.project_code
                     = csv_rows_raw[f].project_code
               /\ aggregated_data[k].first_occurrence_row = csv_rows_raw[f]

C20_Witness ==
    /\ ag_pc = "done"
    /\ Len(csv_rows_raw) = 2
    /\ Len(final_csv_data) = 1
    /\ csv_rows_raw[1].project_code = "P-1"
    /\ csv_rows_raw[2].project_code = "P-2"
    /\ csv_rows_raw[1].internal_external = ""
    /\ csv_rows_raw[2].internal_external = INTERNAL
    /\ final_csv_data[1].internal_external = ""
    /\ aggregated_data[1].first_occurrence_row.project_code = "P-1"

\* C21: the output rows stand in the order in which their keys first appear
\* among the flattened rows.
C21_OutputOrdering ==
    ag_pc = "done" =>
        \A k, l \in 1..Len(final_csv_data) :
            k < l =>
                FirstIndexOfKey(csv_rows_raw, KeyOf(final_csv_data[k]), 1)
                   < FirstIndexOfKey(csv_rows_raw, KeyOf(final_csv_data[l]), 1)

C21_Witness ==
    /\ ag_pc = "done"
    /\ Len(csv_rows_raw) = 3
    /\ Len(final_csv_data) = 2
    /\ KeyOf(csv_rows_raw[1]) = KeyOf(final_csv_data[1])
    /\ KeyOf(csv_rows_raw[2]) = KeyOf(final_csv_data[2])
    /\ KeyOf(csv_rows_raw[3]) = KeyOf(final_csv_data[1])
    /\ final_csv_data[1].total_minutes < final_csv_data[2].total_minutes

\* Index of the last record of projects_list[1..i] that carries id.
RECURSIVE LastIndexOfId(_, _, _)
LastIndexOfId(projects_list, id, i) ==
    IF i < 1 THEN 0
    ELSE IF projects_list[i].id = id THEN i
    ELSE LastIndexOfId(projects_list, id, i - 1)

\* C23: the lookup's keys are the ids of the input, each mapped to the last
\* record carrying it; any other id is absent.
C23_LookupLastWriteWins ==
    ag_pc \in {"lookup", "done"} =>
        /\ DOMAIN project_lookup
              = {all_projects[i].id : i \in 1..Len(all_projects)}
        /\ \A id \in DOMAIN project_lookup :
              project_lookup[id]
                 = all_projects[LastIndexOfId(all_projects, id,
                                              Len(all_projects))]
        /\ \A id \in ProjectIdValues :
              LastIndexOfId(all_projects, id, Len(all_projects)) = 0
                 => id \notin DOMAIN project_lookup

C23_Witness ==
    /\ ag_pc = "lookup"
    /\ Len(all_projects) = 2
    /\ all_projects[1].id = 1 /\ all_projects[1].name = "A"
    /\ all_projects[2].id = 1 /\ all_projects[2].name = "B"
    /\ DOMAIN project_lookup = {1}
    /\ project_lookup[1].name = "B"

\* C22: with a key missing or null in an entry or in a project record, the
\* two functions do not raise, the field counts as the empty string or as
\* zero minutes, and the entry has its output row.
C22_DefensiveDefaults ==
    /\ ag_pc # "raised"
    /\ ag_pc = "done" =>
          \A i \in 1..Len(all_workloads) :
              LET wl == all_workloads[i]
                  bad == wl.missing \cup wl.null
              IN \E k \in 1..Len(final_csv_data) :
                    /\ final_csv_data[k].person_name
                          = (IF "person_name" \in bad THEN ""
                                                      ELSE wl.person_name)
                    /\ final_csv_data[k].total_minutes
                          = (IF "minutes" \in bad THEN 0 ELSE wl.minutes)
                    /\ "workload_tags" \in bad =>
                          final_csv_data[k].workload_tag_name = ""
                    /\ "memo" \in bad => final_csv_data[k].memo = <<>>

====
